---- MODULE Spec2Model ----
(***************************************************************************)
(* pretty_regex: a typed combinator DSL that builds regular-expression     *)
(* pattern strings.  A fragment is PrettyRegex<T>(String, PhantomData<T>): *)
(* a pattern string and a compile-time kind tag.  The model keeps the      *)
(* live fragments of a build expression on a stack (`pool`); constructors  *)
(* push a fragment, combinators consume their operands and push the        *)
(* result.  Patterns are sequences of characters, a character being a      *)
(* one-character string (a character outside ASCII is written as a token   *)
(* such as "<yu>").                                                         *)
(***************************************************************************)
EXTENDS Integers, Sequences, FiniteSets

VARIABLES
    pool,      \* the live fragments, oldest first; the last one is the newest
    last,      \* the operation that produced the current state, with its operands
    made,      \* the number of constructor calls made so far
    ops,       \* the number of combinator calls made so far
    panicked   \* TRUE once an operation has panicked (the process is gone)

vars == <<pool, last, made, ops, panicked>>

(***************************************************************************)
(* Bounds of the exploration.                                              *)
(***************************************************************************)
MaxMade == 2
MaxOps == 2
MaxCount == 1
MaxLen == 2

(***************************************************************************)
(* Kinds: the type parameter T of PrettyRegex<T>.                          *)
(***************************************************************************)
Text == "Text"
Chain == "Chain"
Quantifier == "Quantifier"
Standard == "CharClass<Standard>"
Ascii == "CharClass<Ascii>"
Custom == "CharClass<Custom>"

Kinds == {Text, Chain, Quantifier, Standard, Ascii, Custom}

CharClass == {Standard, Ascii, Custom}

BS == "\\"

PrettyRegex(p, k) == [pat |-> p, kind |-> k]

\* impl From<T: Into<String>> for PrettyRegex<R>: any string, any kind.
from(value, k) == PrettyRegex(value, k)

(***************************************************************************)
(* String helpers: the std operations the code calls.                      *)
(***************************************************************************)
RECURSIVE Concat(_)
Concat(ss) == IF ss = <<>> THEN <<>> ELSE Head(ss) \o Concat(Tail(ss))

DigitChars == <<"0", "1", "2", "3", "4", "5", "6", "7", "8", "9">>

\* Display for usize: the decimal digits of n, most significant first.
RECURSIVE FmtUsize(_)
FmtUsize(n) ==
    IF n < 10 THEN <<DigitChars[n + 1]>>
    ELSE FmtUsize(n \div 10) \o <<DigitChars[(n % 10) + 1]>>

StartsWithAt(s, i, pat) ==
    /\ i + Len(pat) - 1 <= Len(s)
    /\ \A k \in 1..Len(pat) : s[i + k - 1] = pat[k]

\* str::replace: every non-overlapping occurrence of `pat`, left to right.
RECURSIVE ReplaceFrom(_, _, _, _)
ReplaceFrom(s, i, pat, to) ==
    IF i > Len(s) THEN <<>>
    ELSE IF StartsWithAt(s, i, pat)
         THEN to \o ReplaceFrom(s, i + Len(pat), pat, to)
         ELSE <<s[i]>> \o ReplaceFrom(s, i + 1, pat, to)

Replace(s, pat, to) == ReplaceFrom(s, 1, pat, to)

\* The UTF-8 length of a character: the tokens stand for two-byte characters.
ByteLen(c) == IF c \in {"<yu>", "<eacute>"} THEN 2 ELSE 1

RECURSIVE StrLen(_)
StrLen(s) == IF s = <<>> THEN 0 ELSE ByteLen(Head(s)) + StrLen(Tail(s))

LowerLetters ==
    {"a", "b", "c", "d", "e", "f", "g", "h", "i", "j", "k", "l", "m", "n", "o",
     "p", "q", "r", "s", "t", "u", "v", "w", "x", "y", "z", "<yu>", "<eacute>"}

is_lowercase(c) == c \in LowerLetters

(***************************************************************************)
(* regex::escape.                                                          *)
(***************************************************************************)
MetaChars ==
    {BS, ".", "+", "*", "?", "(", ")", "|", "[", "]", "{", "}", "^", "$",
     "#", "&", "-", "~"}

is_meta_character(c) == c \in MetaChars

RECURSIVE escape(_)
escape(text) ==
    IF text = <<>> THEN <<>>
    ELSE (IF is_meta_character(Head(text)) THEN <<BS, Head(text)>>
          ELSE <<Head(text)>>) \o escape(Tail(text))

(***************************************************************************)
(* Primitive constructors (lib.rs).                                        *)
(***************************************************************************)
new(k) == PrettyRegex(<<>>, k)

\* just without the call of escape.
just_raw(text) == PrettyRegex(<<"(", "?", ":">> \o text \o <<")">>, Text)

just(text) == PrettyRegex(<<"(", "?", ":">> \o escape(text) \o <<")">>, Text)

nonescaped(text) == PrettyRegex(<<"(", "?", ":">> \o text \o <<")">>, Chain)

any == PrettyRegex(<<".">>, Standard)
digit == PrettyRegex(<<BS, "d">>, Standard)
word == PrettyRegex(<<BS, "w">>, Standard)
word_boundary == PrettyRegex(<<BS, "b">>, Standard)
whitespace == PrettyRegex(<<BS, "s">>, Standard)
beginning == PrettyRegex(<<"^">>, Standard)
ending == PrettyRegex(<<"$">>, Standard)
text_beginning == PrettyRegex(<<BS, "A">>, Standard)
text_ending == PrettyRegex(<<BS, "z">>, Standard)

ascii_alphabetic ==
    PrettyRegex(<<"[", "[", ":", "a", "l", "p", "h", "a", ":", "]", "]">>, Ascii)
ascii_alphanumeric ==
    PrettyRegex(<<"[", "[", ":", "a", "l", "n", "u", "m", ":", "]", "]">>, Ascii)
ascii_lowercase ==
    PrettyRegex(<<"[", "[", ":", "l", "o", "w", "e", "r", ":", "]", "]">>, Ascii)

\* unicode::Category rendered as a property escape.
Category(name) == <<BS, "p", "{">> \o name \o <<"}">>
Letter == <<"L">>
Number == <<"N">>
LowercaseLetter == <<"L", "l">>

within(set) == PrettyRegex(<<"[">> \o Concat(set) \o <<"]">>, Custom)
without(set) == PrettyRegex(<<"[", "^">> \o Concat(set) \o <<"]">>, Custom)
within_char_range(lo, hi) == PrettyRegex(<<"[", lo, "-", hi, "]">>, Custom)
without_char_range(lo, hi) == PrettyRegex(<<"[", "^", lo, "-", hi, "]">>, Custom)

(***************************************************************************)
(* Composition combinators (lib.rs).                                       *)
(***************************************************************************)
then_grouped(self, rhs) == PrettyRegex(<<"(", "?", ":">> \o self.pat \o rhs.pat \o <<")">>, Chain)

then(self, rhs) == PrettyRegex(self.pat \o rhs.pat, Chain)

add(self, rhs) == then(self, rhs)

HasLazy_any(self) == self.kind \in {Quantifier, Chain}

\* lazy is a method of impl PrettyRegex<Quantifier> only.
HasLazy(self) == self.kind = Quantifier

lazy(self) == PrettyRegex(self.pat \o <<"?">>, Chain)

Group(p) == <<"(", "?", ":">> \o p \o <<")">>

repeats_bare(self, times) ==
    PrettyRegex(self.pat \o <<"{">> \o FmtUsize(times) \o <<"}">>, Quantifier)

repeats(self, times) ==
    PrettyRegex(Group(self.pat) \o <<"{">> \o FmtUsize(times) \o <<"}">>, Quantifier)

mul(self, rhs) == repeats(self, rhs)

repeats_at_least(self, times) ==
    PrettyRegex(Group(self.pat) \o <<"{">> \o FmtUsize(times) \o <<",", "}">>,
                Quantifier)

repeats_one_or_more_times(self) == PrettyRegex(Group(self.pat) \o <<"+">>, Quantifier)

optional(self) == PrettyRegex(Group(self.pat) \o <<"?">>, Quantifier)

repeats_zero_or_more_times(self) == PrettyRegex(Group(self.pat) \o <<"*">>, Quantifier)

repeats_n_times_within(self, start, end) ==
    PrettyRegex(Group(self.pat) \o <<"{">> \o FmtUsize(start) \o <<",">>
                    \o FmtUsize(end) \o <<"}">>,
                Quantifier)

unnamed_capture(self) == PrettyRegex(<<"(">> \o self.pat \o <<")">>, Chain)

named_capture(self, name) ==
    PrettyRegex(<<"(", "?", "P", "<">> \o name \o <<">">> \o self.pat \o <<")">>, Chain)

\* one_of over the rendered options (S: Display); options[0] must exist.
RECURSIVE one_of_loop(_, _, _)
one_of_loop(regex_string, options, idx) ==
    IF idx > Len(options) THEN regex_string
    ELSE one_of_loop(regex_string \o <<"|">> \o options[idx], options, idx + 1)

one_of_grouped(options) ==
    PrettyRegex(<<"(", "?", ":">> \o one_of_loop(options[1], options, 2) \o <<")">>, Chain)

one_of(options) == PrettyRegex(one_of_loop(options[1], options, 2), Chain)

bitor(self, rhs) == one_of(<<self.pat, rhs.pat>>)

alphabetic == PrettyRegex(Category(Letter), Standard)
lowercase == PrettyRegex(Category(LowercaseLetter), Standard)
alphanumeric == one_of(<<Category(Letter), Category(Number)>>)

(***************************************************************************)
(* Character-class set algebra (logic.rs).                                 *)
(***************************************************************************)
bitand_swapped(self, rhs) ==
    PrettyRegex(<<"[">> \o rhs.pat \o <<"&", "&">> \o self.pat \o <<"]">>, Custom)

bitand(self, rhs) ==
    PrettyRegex(<<"[">> \o self.pat \o <<"&", "&">> \o rhs.pat \o <<"]">>, Custom)

sub(self, rhs) ==
    PrettyRegex(<<"[">> \o self.pat \o <<"-", "-">> \o rhs.pat \o <<"]">>, Custom)

bitxor(self, rhs) ==
    PrettyRegex(<<"[">> \o self.pat \o <<"~", "~">> \o rhs.pat \o <<"]">>, Custom)

and(self, rhs) == bitand(self, rhs)

symmetric_difference_with(self, rhs) == bitxor(self, rhs)

symmetric_difference_between(left, right) == bitxor(left, right)

\* Which operand kinds each operator's impl accepts.
HasBitAnd(self, rhs) == rhs.kind \in CharClass
HasSub(self, rhs) == rhs.kind \in CharClass
HasBitXor(self, rhs) == self.kind \in CharClass /\ rhs.kind \in CharClass
HasAnd(self, rhs) == self.kind \in CharClass /\ rhs.kind \in CharClass

(***************************************************************************)
(* Complement (logic.rs).  A result of "panic" stands for the abort.       *)
(***************************************************************************)
Panic == [pat |-> <<>>, kind |-> "panic"]

not_standard_first(self) ==
    IF StrLen(self.pat) < 2 THEN self
    ELSE IF is_lowercase(self.pat[1])
    THEN PrettyRegex(
             Replace(Replace(Replace(Replace(Replace(self.pat,
                 <<BS, "d">>, <<BS, "D">>),
                 <<BS, "p">>, <<BS, "P">>),
                 <<BS, "w">>, <<BS, "W">>),
                 <<BS, "s">>, <<BS, "S">>),
                 <<BS, "b">>, <<BS, "B">>),
             Standard)
    ELSE PrettyRegex(
             Replace(Replace(Replace(Replace(Replace(self.pat,
                 <<BS, "D">>, <<BS, "d">>),
                 <<BS, "P">>, <<BS, "p">>),
                 <<BS, "W">>, <<BS, "w">>),
                 <<BS, "S">>, <<BS, "s">>),
                 <<BS, "B">>, <<BS, "b">>),
             Standard)

not_standard(self) ==
    IF StrLen(self.pat) < 2 THEN self
    ELSE IF Len(self.pat) < 2 THEN Panic
    ELSE IF is_lowercase(self.pat[2])
    THEN PrettyRegex(
             Replace(Replace(Replace(Replace(Replace(self.pat,
                 <<BS, "d">>, <<BS, "D">>),
                 <<BS, "p">>, <<BS, "P">>),
                 <<BS, "w">>, <<BS, "W">>),
                 <<BS, "s">>, <<BS, "S">>),
                 <<BS, "b">>, <<BS, "B">>),
             Standard)
    ELSE PrettyRegex(
             Replace(Replace(Replace(Replace(Replace(self.pat,
                 <<BS, "D">>, <<BS, "d">>),
                 <<BS, "P">>, <<BS, "p">>),
                 <<BS, "W">>, <<BS, "w">>),
                 <<BS, "S">>, <<BS, "s">>),
                 <<BS, "B">>, <<BS, "b">>),
             Standard)

not_custom(self) ==
    IF Len(self.pat) < 2 THEN Panic
    ELSE IF self.pat[2] = "^"
    THEN PrettyRegex(Replace(self.pat, <<"[", "^">>, <<"[">>), Custom)
    ELSE PrettyRegex(Replace(self.pat, <<"[">>, <<"[", "^">>), Custom)

not_ascii(self) ==
    IF Len(self.pat) < 4 THEN Panic
    ELSE IF self.pat[4] = "^"
    THEN PrettyRegex(Replace(self.pat, <<"[", "[", ":", "^">>, <<"[", "[", ":">>), Ascii)
    ELSE PrettyRegex(Replace(self.pat, <<"[", "[", ":">>, <<"[", "[", ":", "^">>), Ascii)

not_text(self) ==
    PrettyRegex(Concat([i \in 1..Len(self.pat) |-> <<"[", "^", self.pat[i], "]">>]),
                Chain)

\* The kinds for which an impl of Not exists.
HasNot(self) == self.kind \in {Standard, Custom, Ascii, Text}

not(regex) ==
    CASE regex.kind = Standard -> not_standard(regex)
      [] regex.kind = Custom -> not_custom(regex)
      [] regex.kind = Ascii -> not_ascii(regex)
      [] regex.kind = Text -> not_text(regex)

(***************************************************************************)
(* Inputs of the operations.                                               *)
(***************************************************************************)
Texts == {<<"a">>, <<"b">>}

TextAlphabet == MetaChars \cup {"a", "b"}

AllTexts == UNION {[1..n -> TextAlphabet] : n \in 0..MaxLen}

RawTexts == {<<"a", "|", "b">>}

FromTexts == {<<"<yu>">>, <<"a", "b", "c", "d">>}

CharLists == {<<"a", "b">>, <<"[">>}

CharRanges == {<<"a", "b">>}

Names == {<<"n">>}

Counts == 0..MaxCount

(***************************************************************************)
(* The state machine.                                                      *)
(***************************************************************************)
Call(op, args, nums, text) == [op |-> op, args |-> args, nums |-> nums, text |-> text]

Top == pool[Len(pool)]
Under == pool[Len(pool) - 1]

Init ==
    /\ pool = <<>>
    /\ last = Call("init", <<>>, <<>>, <<>>)
    /\ made = 0
    /\ ops = 0
    /\ panicked = FALSE

\* The build expression is finished within the budget: n live fragments
\* need n - 1 more binary combinator calls to become one pattern.
CanFinish(n, used) == n - 1 <= MaxOps - used

\* A constructor call: its result becomes the newest live fragment.
Construct(f, op, text) ==
    /\ ~panicked
    /\ CanFinish(Len(pool) + 1, ops)
    /\ pool' = Append(pool, f)
    /\ made' = made + 1
    /\ last' = Call(op, <<>>, <<>>, text)
    /\ UNCHANGED <<ops, panicked>>

\* A combinator call on the newest n fragments: they are consumed, and the
\* result (or the panic) takes their place.
Combine(n, result, op, nums, text) ==
    /\ ~panicked
    /\ Len(pool) >= n
    /\ ops < MaxOps
    /\ CanFinish(Len(pool) - n + 1, ops + 1)
    /\ ops' = ops + 1
    /\ UNCHANGED made
    /\ last' = Call(op, SubSeq(pool, Len(pool) - n + 1, Len(pool)), nums, text)
    /\ IF result = Panic
       THEN /\ panicked' = TRUE
            /\ pool' = SubSeq(pool, 1, Len(pool) - n)
       ELSE /\ panicked' = FALSE
            /\ pool' = Append(SubSeq(pool, 1, Len(pool) - n), result)

New == \E k \in Kinds : made < MaxMade /\ Construct(new(k), "new", <<>>)
From == \E t \in FromTexts, k \in Kinds : made < MaxMade /\ Construct(from(t, k), "from", t)
Just == \E t \in Texts : made < MaxMade /\ Construct(just(t), "just", t)
Nonescaped == \E t \in RawTexts : made < MaxMade /\ Construct(nonescaped(t), "nonescaped", t)
Any == made < MaxMade /\ Construct(any, "any", <<>>)
Digit == made < MaxMade /\ Construct(digit, "digit", <<>>)
Word == made < MaxMade /\ Construct(word, "word", <<>>)
WordBoundary == made < MaxMade /\ Construct(word_boundary, "word_boundary", <<>>)
Whitespace == made < MaxMade /\ Construct(whitespace, "whitespace", <<>>)
AsciiAlphabetic == made < MaxMade /\ Construct(ascii_alphabetic, "ascii_alphabetic", <<>>)
AsciiAlphanumeric == made < MaxMade /\ Construct(ascii_alphanumeric, "ascii_alphanumeric", <<>>)
Alphabetic == made < MaxMade /\ Construct(alphabetic, "alphabetic", <<>>)
Alphanumeric == made < MaxMade /\ Construct(alphanumeric, "alphanumeric", <<>>)
Lowercase == made < MaxMade /\ Construct(lowercase, "lowercase", <<>>)
AsciiLowercase == made < MaxMade /\ Construct(ascii_lowercase, "ascii_lowercase", <<>>)
Within == \E s \in CharLists : made < MaxMade /\ Construct(within([i \in 1..Len(s) |-> <<s[i]>>]), "within", s)
Without == \E s \in CharLists : made < MaxMade /\ Construct(without([i \in 1..Len(s) |-> <<s[i]>>]), "without", s)
WithinCharRange ==
    \E r \in CharRanges : made < MaxMade /\ Construct(within_char_range(r[1], r[2]), "within_char_range", r)
WithoutCharRange ==
    \E r \in CharRanges : made < MaxMade /\ Construct(without_char_range(r[1], r[2]), "without_char_range", r)
Beginning == made < MaxMade /\ Construct(beginning, "beginning", <<>>)
Ending == made < MaxMade /\ Construct(ending, "ending", <<>>)
TextBeginning == made < MaxMade /\ Construct(text_beginning, "text_beginning", <<>>)
TextEnding == made < MaxMade /\ Construct(text_ending, "text_ending", <<>>)

Then == Len(pool) >= 2 /\ Combine(2, then(Under, Top), "then", <<>>, <<>>)
Add == Len(pool) >= 2 /\ Combine(2, add(Under, Top), "add", <<>>, <<>>)
Lazy == Len(pool) >= 1 /\ HasLazy(Top) /\ Combine(1, lazy(Top), "lazy", <<>>, <<>>)
Mul == \E n \in Counts : Len(pool) >= 1 /\ Combine(1, mul(Top, n), "mul", <<n>>, <<>>)
Repeats ==
    \E n \in Counts : Len(pool) >= 1 /\ Combine(1, repeats(Top, n), "repeats", <<n>>, <<>>)
RepeatsAtLeast ==
    \E n \in Counts :
        Len(pool) >= 1 /\ Combine(1, repeats_at_least(Top, n), "repeats_at_least", <<n>>, <<>>)
RepeatsOneOrMoreTimes ==
    Len(pool) >= 1
    /\ Combine(1, repeats_one_or_more_times(Top), "repeats_one_or_more_times", <<>>, <<>>)
Optional == Len(pool) >= 1 /\ Combine(1, optional(Top), "optional", <<>>, <<>>)
RepeatsZeroOrMoreTimes ==
    Len(pool) >= 1
    /\ Combine(1, repeats_zero_or_more_times(Top), "repeats_zero_or_more_times", <<>>, <<>>)
RepeatsNTimesWithin ==
    \E start \in Counts, end \in Counts :
        Len(pool) >= 1
        /\ Combine(1, repeats_n_times_within(Top, start, end), "repeats_n_times_within",
                   <<start, end>>, <<>>)
UnnamedCapture ==
    Len(pool) >= 1 /\ Combine(1, unnamed_capture(Top), "unnamed_capture", <<>>, <<>>)
NamedCapture ==
    \E name \in Names :
        Len(pool) >= 1 /\ Combine(1, named_capture(Top, name), "named_capture", <<>>, name)

\* one_of over a slice of the n newest fragments, rendered; an empty slice
\* panics at options[0].
OneOf ==
    \E n \in 0..Len(pool) :
        Combine(n,
                IF n = 0 THEN Panic
                ELSE one_of([i \in 1..n |-> pool[Len(pool) - n + i].pat]),
                "one_of", <<n>>, <<>>)
BitOr == Len(pool) >= 2 /\ Combine(2, bitor(Under, Top), "bitor", <<>>, <<>>)

And == Len(pool) >= 2 /\ HasAnd(Under, Top) /\ Combine(2, and(Under, Top), "and", <<>>, <<>>)
SymmetricDifferenceWith ==
    Len(pool) >= 2 /\ HasAnd(Under, Top)
    /\ Combine(2, symmetric_difference_with(Under, Top), "symmetric_difference_with",
               <<>>, <<>>)
SymmetricDifferenceBetween ==
    Len(pool) >= 2 /\ HasBitXor(Under, Top)
    /\ Combine(2, symmetric_difference_between(Under, Top),
               "symmetric_difference_between", <<>>, <<>>)
BitAnd ==
    Len(pool) >= 2 /\ HasBitAnd(Under, Top)
    /\ Combine(2, bitand(Under, Top), "bitand", <<>>, <<>>)
Sub == Len(pool) >= 2 /\ HasSub(Under, Top) /\ Combine(2, sub(Under, Top), "sub", <<>>, <<>>)
BitXor ==
    Len(pool) >= 2 /\ HasBitXor(Under, Top)
    /\ Combine(2, bitxor(Under, Top), "bitxor", <<>>, <<>>)
Not == Len(pool) >= 1 /\ HasNot(Top) /\ Combine(1, not(Top), "not", <<>>, <<>>)

Constructors ==
    \/ New \/ From \/ Just \/ Nonescaped
    \/ Any \/ Digit \/ Word \/ WordBoundary \/ Whitespace
    \/ AsciiAlphabetic \/ AsciiAlphanumeric \/ AsciiLowercase
    \/ Alphabetic \/ Alphanumeric \/ Lowercase
    \/ Within \/ Without \/ WithinCharRange \/ WithoutCharRange
    \/ Beginning \/ Ending \/ TextBeginning \/ TextEnding

Combinators ==
    \/ Then \/ Add \/ Lazy
    \/ Mul \/ Repeats \/ RepeatsAtLeast \/ RepeatsOneOrMoreTimes \/ Optional
    \/ RepeatsZeroOrMoreTimes \/ RepeatsNTimesWithin
    \/ UnnamedCapture \/ NamedCapture \/ OneOf \/ BitOr
    \/ And \/ SymmetricDifferenceWith \/ SymmetricDifferenceBetween
    \/ BitAnd \/ Sub \/ BitXor \/ Not

Next == Constructors \/ Combinators

Spec == Init /\ [][Next]_vars

\* just alone, on every text over the metacharacters and two letters.
JustLiteral == \E t \in AllTexts : pool = <<>> /\ Construct(just(t), "just", t)

NextJust == JustLiteral

SpecJust == Init /\ [][NextJust]_vars

\* The calls that cannot inject raw pattern text: every constructor but new,
\* From::from and nonescaped, and every combinator.
SafeConstructors ==
    \/ Just \/ Any \/ Digit \/ Word \/ WordBoundary \/ Whitespace
    \/ AsciiAlphabetic \/ AsciiAlphanumeric \/ Alphabetic \/ Alphanumeric
    \/ Lowercase \/ AsciiLowercase
    \/ Within \/ Without \/ WithinCharRange \/ WithoutCharRange
    \/ Beginning \/ Ending \/ TextBeginning \/ TextEnding

NextSafe == SafeConstructors \/ Combinators

SpecSafe == Init /\ [][NextSafe]_vars

\* The subjects the fragments are matched against.
SubjectAlphabet == {"a", "b", "1"}

Subjects == UNION {[1..n -> SubjectAlphabet] : n \in 0..MaxLen}

\* k copies of text in a row.
RECURSIVE Copies(_, _)
Copies(text, k) == IF k = 0 THEN <<>> ELSE text \o Copies(text, k - 1)

(***************************************************************************)
(* The pattern engine (the regex crate behind to_regex): the syntax and    *)
(* the meaning of the patterns this crate renders.  A parse result is      *)
(* [next, ends]: the position after the construct (0: a syntax error) and  *)
(* the positions of the subject where a match of it can end.               *)
(***************************************************************************)
UpperLetters ==
    {"A", "B", "C", "D", "E", "F", "G", "H", "I", "J", "K", "L", "M", "N", "O",
     "P", "Q", "R", "S", "T", "U", "V", "W", "X", "Y", "Z"}

AsciiLower == LowerLetters \ {"<yu>", "<eacute>"}

DigitSet == {DigitChars[i] : i \in 1..10}

Spaces == {" ", "\t", "\n"}

\* The printable ASCII characters in code order, from the space (32) on.
AsciiOrder ==
    <<" ", "!", "<dq>", "#", "$", "%", "&", "'", "(", ")", "*", "+", ",", "-", ".", "/",
      "0", "1", "2", "3", "4", "5", "6", "7", "8", "9", ":", ";", "<", "=", ">", "?",
      "@", "A", "B", "C", "D", "E", "F", "G", "H", "I", "J", "K", "L", "M", "N", "O",
      "P", "Q", "R", "S", "T", "U", "V", "W", "X", "Y", "Z", "[", BS, "]", "^", "_",
      "<bq>", "a", "b", "c", "d", "e", "f", "g", "h", "i", "j", "k", "l", "m", "n", "o",
      "p", "q", "r", "s", "t", "u", "v", "w", "x", "y", "z", "{", "|", "}", "~">>

CodePoint(c) ==
    CASE c = "\t" -> 9
      [] c = "\n" -> 10
      [] c = "<eacute>" -> 233
      [] c = "<yu>" -> 1102
      [] OTHER -> 31 + (CHOOSE k \in 1..Len(AsciiOrder) : AsciiOrder[k] = c)

IsLetterChar(c) == c \in LowerLetters \cup UpperLetters
IsWordChar(c) == IsLetterChar(c) \/ c \in DigitSet \/ c = "_"

\* \d \w \s and their complements, by the letter after the backslash.
PerlClassHas(x, c) ==
    CASE x = "d" -> c \in DigitSet
      [] x = "D" -> c \notin DigitSet
      [] x = "w" -> IsWordChar(c)
      [] x = "W" -> ~IsWordChar(c)
      [] x = "s" -> c \in Spaces
      [] x = "S" -> c \notin Spaces

PerlClassLetters == {"d", "D", "w", "W", "s", "S"}

\* The Unicode general categories the crate names.
PropertyNames == {<<"L">>, <<"N">>, <<"L", "l">>}

PropertyHas(name, c) ==
    CASE name = <<"L">> -> IsLetterChar(c)
      [] name = <<"N">> -> c \in DigitSet
      [] name = <<"L", "l">> -> c \in LowerLetters

\* [:name:] classes.
PosixNames ==
    {<<"a", "l", "p", "h", "a">>, <<"a", "l", "n", "u", "m">>, <<"l", "o", "w", "e", "r">>,
     <<"u", "p", "p", "e", "r">>, <<"d", "i", "g", "i", "t">>}

PosixHas(name, c) ==
    CASE name = <<"a", "l", "p", "h", "a">> -> c \in AsciiLower \cup UpperLetters
      [] name = <<"a", "l", "n", "u", "m">> -> c \in AsciiLower \cup UpperLetters \cup DigitSet
      [] name = <<"l", "o", "w", "e", "r">> -> c \in AsciiLower
      [] name = <<"u", "p", "p", "e", "r">> -> c \in UpperLetters
      [] name = <<"d", "i", "g", "i", "t">> -> c \in DigitSet

\* str::parse::<usize>: the value of a string of decimal digits.
DigitValue(c) == CHOOSE d \in 0..9 : DigitChars[d + 1] = c

RECURSIVE ParseUsize(_)
ParseUsize(ds) ==
    IF ds = <<>> THEN 0
    ELSE 10 * ParseUsize(SubSeq(ds, 1, Len(ds) - 1)) + DigitValue(ds[Len(ds)])

IsNumeral(ds) ==
    /\ ds # <<>>
    /\ \A i \in 1..Len(ds) : \E d \in 0..9 : DigitChars[d + 1] = ds[i]
    /\ (Len(ds) > 1 => ds[1] # "0")

Res(next, ends) == [next |-> next, ends |-> ends]
Err == Res(0, {})

At(p, i) == IF i >= 1 /\ i <= Len(p) THEN p[i] ELSE "<end>"

\* The position of the first x at or after i, 0 when there is none.
RECURSIVE Find(_, _, _)
Find(p, i, x) ==
    IF i > Len(p) THEN 0 ELSE IF p[i] = x THEN i ELSE Find(p, i + 1, x)

\* \p{Name}, \pX, \P{Name}, \PX at position i (the backslash): [next, ends]
\* with ends the truth of "c is in the class".
PropertyAt(p, i, c) ==
    LET neg == At(p, i + 1) = "P"
        close == Find(p, i + 3, "}")
        name == IF At(p, i + 2) = "{"
                THEN (IF close = 0 THEN <<>> ELSE SubSeq(p, i + 3, close - 1))
                ELSE IF i + 2 <= Len(p) THEN <<p[i + 2]>> ELSE <<>>
        next == IF At(p, i + 2) = "{" THEN close + 1 ELSE i + 3
    IN  IF name \notin PropertyNames THEN Err
        ELSE Res(next, PropertyHas(name, c) # neg)

\* [:name:] or [:^name:] at position i (the bracket); next = 0 when the text
\* there is no such class (it is then an ordinary nested class).
PosixAt(p, i, c) ==
    LET neg == At(p, i + 2) = "^"
        from0 == IF neg THEN i + 3 ELSE i + 2
        colon == Find(p, from0, ":")
        name == IF colon = 0 THEN <<>> ELSE SubSeq(p, from0, colon - 1)
    IN  IF At(p, i + 1) = ":" /\ colon # 0 /\ At(p, colon + 1) = "]" /\ name \in PosixNames
        THEN Res(colon + 2, PosixHas(name, c) # neg)
        ELSE Err

\* One literal of a bracket expression at position i: [next, ends] with ends
\* the character it denotes; an escape that denotes no single character is
\* an error here.
ClassLiteral(p, i) ==
    IF At(p, i) = BS
    THEN (IF At(p, i + 1) \in MetaChars THEN Res(i + 2, p[i + 1])
          ELSE IF At(p, i + 1) = "n" THEN Res(i + 2, "\n")
          ELSE IF At(p, i + 1) = "t" THEN Res(i + 2, "\t")
          ELSE Err)
    ELSE IF i > Len(p) THEN Err
    ELSE Res(i + 1, p[i])

IsClassOp(p, j) ==
    \/ (At(p, j) = "&" /\ At(p, j + 1) = "&")
    \/ (At(p, j) = "-" /\ At(p, j + 1) = "-")
    \/ (At(p, j) = "~" /\ At(p, j + 1) = "~")

RECURSIVE ClassSet(_, _, _), ClassUnion(_, _, _, _), ClassOps(_, _, _, _), ClassItem(_, _, _)

\* One item of a union at position j: a nested class, a POSIX class, a Perl
\* or Unicode class, a range or a single character.
ClassItem(p, j, c) ==
    IF At(p, j) = "["
    THEN (IF PosixAt(p, j, c).next # 0 THEN PosixAt(p, j, c) ELSE ClassSet(p, j, c))
    ELSE IF At(p, j) = BS /\ At(p, j + 1) \in PerlClassLetters
    THEN Res(j + 2, PerlClassHas(p[j + 1], c))
    ELSE IF At(p, j) = BS /\ At(p, j + 1) \in {"p", "P"}
    THEN PropertyAt(p, j, c)
    ELSE LET lo == ClassLiteral(p, j)
             hi == ClassLiteral(p, lo.next + 1)
         IN  IF lo.next = 0 THEN Err
             ELSE IF At(p, lo.next) = "-" /\ At(p, lo.next + 1) \notin {"]", "-", "<end>"}
             THEN (IF hi.next = 0 \/ CodePoint(hi.ends) < CodePoint(lo.ends) THEN Err
                   ELSE Res(hi.next,
                            CodePoint(lo.ends) <= CodePoint(c)
                                /\ CodePoint(c) <= CodePoint(hi.ends)))
             ELSE Res(lo.next, c = lo.ends)

\* The items from position j on, up to the closing bracket or a set operator.
ClassUnion(p, j, c, acc) ==
    IF j > Len(p) THEN Err
    ELSE IF p[j] = "]" \/ IsClassOp(p, j) THEN Res(j, acc)
    ELSE LET item == ClassItem(p, j, c)
         IN  IF item.next = 0 THEN Err ELSE ClassUnion(p, item.next, c, acc \/ item.ends)

\* The set operators after a union, left to right, up to the closing bracket.
ClassOps(p, j, c, acc) ==
    IF j > Len(p) THEN Err
    ELSE IF p[j] = "]" THEN Res(j + 1, acc)
    ELSE LET rhs == ClassUnion(p, j + 2, c, FALSE)
         IN  IF rhs.next = 0 THEN Err
             ELSE ClassOps(p, rhs.next, c,
                           CASE p[j] = "&" -> acc /\ rhs.ends
                             [] p[j] = "-" -> acc /\ ~rhs.ends
                             [] OTHER -> acc # rhs.ends)

\* A bracket expression at position i: [next, ends] with ends the truth of
\* "c is in the class".  A closing bracket right after the opening is a literal.
ClassSet(p, i, c) ==
    LET neg == At(p, i + 1) = "^"
        j == IF neg THEN i + 2 ELSE i + 1
        first == IF At(p, j) = "]" THEN ClassUnion(p, j + 1, c, c = "]")
                 ELSE ClassUnion(p, j, c, FALSE)
        all == ClassOps(p, first.next, c, first.ends)
    IN  IF first.next = 0 \/ all.next = 0 THEN Err
        ELSE Res(all.next, all.ends # neg)

\* \b holds at position e when exactly one of the neighbours is a word character.
WordBoundaryAt(s, e) ==
    (e >= 1 /\ IsWordChar(s[e])) # (e < Len(s) /\ IsWordChar(s[e + 1]))

\* A repetition operator at position j: [next, min, max] (max = -1: no
\* limit; next = 0: a syntax error; next = j: no operator there).  A '?'
\* after the operator makes it lazy, which changes no match set.
RepOp(next, min, max) == [next |-> next, min |-> min, max |-> max]

Lazily(p, r) == IF r.next # 0 /\ At(p, r.next) = "?" THEN [r EXCEPT !.next = r.next + 1] ELSE r

Counted(p, j) ==
    LET close == Find(p, j + 1, "}")
        body == SubSeq(p, j + 1, close - 1)
        comma == Find(body, 1, ",")
        lo == IF comma = 0 THEN body ELSE SubSeq(body, 1, comma - 1)
        hi == IF comma = 0 THEN body ELSE SubSeq(body, comma + 1, Len(body))
        digits(ds) == \A k \in 1..Len(ds) : ds[k] \in DigitSet
    IN  IF close = 0 \/ lo = <<>> \/ ~digits(lo) \/ ~digits(hi) THEN RepOp(0, 0, 0)
        ELSE IF comma # 0 /\ hi = <<>> THEN RepOp(close + 1, ParseUsize(lo), -1)
        ELSE IF ParseUsize(hi) < ParseUsize(lo) THEN RepOp(0, 0, 0)
        ELSE RepOp(close + 1, ParseUsize(lo), ParseUsize(hi))

RepetitionAt(p, j) ==
    CASE At(p, j) = "*" -> Lazily(p, RepOp(j + 1, 0, -1))
      [] At(p, j) = "+" -> Lazily(p, RepOp(j + 1, 1, -1))
      [] At(p, j) = "?" -> Lazily(p, RepOp(j + 1, 0, 1))
      [] At(p, j) = "{" -> Lazily(p, Counted(p, j))
      [] OTHER -> RepOp(j, 1, 1)

\* A capture name: a letter or '_', then letters, digits and '_'.
IsCaptureName(name) ==
    /\ name # <<>>
    /\ (IsLetterChar(name[1]) \/ name[1] = "_")
    /\ \A k \in 1..Len(name) : IsWordChar(name[k])

RECURSIVE Alt(_, _, _, _), Cat(_, _, _, _), Atom(_, _, _, _), Quantified(_, _, _, _, _, _),
          Times(_, _, _, _), UpTo(_, _, _, _, _)

\* The match ends of `min` matches in a row of the pattern u.
Times(u, s, starts, min) ==
    IF min = 0 \/ starts = {} THEN starts
    ELSE Times(u, s, Alt(u, 1, s, starts).ends, min - 1)

\* acc plus the ends of up to `more` further matches in a row of u, begun
\* at frontier (more = -1: any number).
UpTo(u, s, acc, frontier, more) ==
    LET fresh == Alt(u, 1, s, frontier).ends \ acc
    IN  IF more = 0 \/ frontier = {} \/ fresh = {} THEN acc
        ELSE UpTo(u, s, acc \cup fresh, fresh, IF more = -1 THEN -1 ELSE more - 1)

\* p[i..j-1] is an atom with the repetition operators read so far, and ends
\* its match ends from starts; the operators from j on apply to all of it.
Quantified(p, i, j, s, starts, ends) ==
    LET q == RepetitionAt(p, j)
        u == SubSeq(p, i, j - 1)
        base == Times(u, s, starts, q.min)
    IN  IF q.next = 0 THEN Err
        ELSE IF q.next = j THEN Res(j, ends)
        ELSE Quantified(p, i, q.next, s, starts,
                        UpTo(u, s, base, base,
                             IF q.max = -1 THEN -1 ELSE q.max - q.min))

\* One atom at position i, without its repetition operators.
Atom(p, i, s, starts) ==
    LET x == At(p, i)
        y == At(p, i + 1)
        gt == Find(p, i + 4, ">")
        open == IF y # "?" THEN i + 1
                ELSE IF At(p, i + 2) = ":" THEN i + 3
                ELSE IF At(p, i + 2) = "P" /\ At(p, i + 3) = "<" /\ gt # 0
                        /\ IsCaptureName(SubSeq(p, i + 4, gt - 1))
                THEN gt + 1
                ELSE 0
        inner == Alt(p, open, s, starts)
        \* The positions after one character of the subject that satisfies Has.
        Step(Has(_)) == {e + 1 : e \in {b \in starts : b < Len(s) /\ Has(s[b + 1])}}
        InClass(c) == ClassSet(p, i, c).ends
        InPerl(c) == PerlClassHas(y, c)
        InProperty(c) == PropertyAt(p, i, c).ends
        IsEscaped(c) == c = y
        IsNewline(c) == c = "\n"
        IsTab(c) == c = "\t"
        NotNewline(c) == c # "\n"
        IsLiteral(c) == c = x
    IN  CASE x = "(" ->
                 IF open = 0 \/ inner.next = 0 \/ At(p, inner.next) # ")" THEN Err
                 ELSE Res(inner.next + 1, inner.ends)
          [] x = "[" ->
                 IF ClassSet(p, i, "a").next = 0 THEN Err
                 ELSE Res(ClassSet(p, i, "a").next, Step(InClass))
          [] x = BS ->
                 (CASE y \in PerlClassLetters -> Res(i + 2, Step(InPerl))
                    [] y \in {"p", "P"} ->
                           IF PropertyAt(p, i, "a").next = 0 THEN Err
                           ELSE Res(PropertyAt(p, i, "a").next, Step(InProperty))
                    [] y = "b" -> Res(i + 2, {e \in starts : WordBoundaryAt(s, e)})
                    [] y = "B" -> Res(i + 2, {e \in starts : ~WordBoundaryAt(s, e)})
                    [] y = "A" -> Res(i + 2, starts \cap {0})
                    [] y = "z" -> Res(i + 2, starts \cap {Len(s)})
                    [] y = "n" -> Res(i + 2, Step(IsNewline))
                    [] y = "t" -> Res(i + 2, Step(IsTab))
                    [] y \in MetaChars -> Res(i + 2, Step(IsEscaped))
                    [] OTHER -> Err)
          [] x = "." -> Res(i + 1, Step(NotNewline))
          [] x = "^" -> Res(i + 1, starts \cap {0})
          [] x = "$" -> Res(i + 1, starts \cap {Len(s)})
          [] x \in {"*", "+", "?", "{", ")", "<end>"} -> Err
          [] OTHER -> Res(i + 1, Step(IsLiteral))

\* A concatenation from position i up to a '|', a ')' or the end.
Cat(p, i, s, starts) ==
    IF i > Len(p) \/ p[i] \in {"|", ")"} THEN Res(i, starts)
    ELSE LET a == Atom(p, i, s, starts)
             q == IF a.next = 0 THEN Err ELSE Quantified(p, i, a.next, s, starts, a.ends)
         IN  IF q.next = 0 THEN Err ELSE Cat(p, q.next, s, q.ends)

\* An alternation from position i up to a ')' or the end.
Alt(p, i, s, starts) ==
    LET c == Cat(p, i, s, starts)
        r == Alt(p, c.next + 1, s, starts)
    IN  IF c.next = 0 THEN Err
        ELSE IF At(p, c.next) # "|" THEN c
        ELSE IF r.next = 0 THEN Err
        ELSE Res(r.next, c.ends \cup r.ends)

\* Regex::new(p) is Ok.
IsValid(p) == Alt(p, 1, <<>>, {}).next = Len(p) + 1

\* The positions where a match of p that starts at one of starts can end.
Ends(p, s, starts) == Alt(p, 1, s, starts).ends

\* p matches the whole of s.
FullMatch(p, s) == IsValid(p) /\ Len(s) \in Ends(p, s, {0})

\* Regex::is_match: p matches somewhere in s.
is_match(p, s) == IsValid(p) /\ \E i \in 0..Len(s) : Ends(p, s, {i}) # {}

(***************************************************************************)
(* Properties.                                                             *)
(***************************************************************************)
Returned == ~panicked /\ pool # <<>>

Arg(i) == last.args[i]

\* The fragments the current state holds: the live ones and the operands of
\* the last call.
Fragments == {pool[i] : i \in 1..Len(pool)} \cup {last.args[i] : i \in 1..Len(last.args)}

\* p is "(?:" inner ")" followed by suffix.
IsGroupedWith(p, inner, suffix) == p = <<"(", "?", ":">> \o inner \o <<")">> \o suffix

\* The text an escaped pattern stands for: "\\" c stands for c, a bare
\* metacharacter stands for nothing literal.
RECURSIVE Unescape(_)
Unescape(body) ==
    IF body = <<>> THEN <<>>
    ELSE IF body[1] = BS /\ Len(body) >= 2 /\ body[2] \in MetaChars
    THEN <<body[2]>> \o Unescape(SubSeq(body, 3, Len(body)))
    ELSE IF body[1] \in MetaChars THEN <<"<bare>">> \o Unescape(Tail(body))
    ELSE <<body[1]>> \o Unescape(Tail(body))

\* C1: for every literal text T, metacharacters included, just(T) is a Text
\* fragment that renders "(?:" escape(T) ")" with every metacharacter of T
\* escaped, so it matches T verbatim and no string that differs from T.
C1_JustIsLiteral ==
    (Returned /\ last.op = "just") =>
        LET T == last.text
            body == SubSeq(Top.pat, 4, Len(Top.pat) - 1)
        IN  /\ Top.kind = Text
            /\ IsGroupedWith(Top.pat, body, <<>>)
            /\ Unescape(body) = T
            /\ IsValid(Top.pat)
            /\ \A S \in AllTexts :
                   /\ FullMatch(Top.pat, S) <=> S = T
                   /\ Len(S) = Len(T) => (is_match(Top.pat, S) <=> S = T)

C1_Witness ==
    /\ Returned
    /\ last.op = "just"
    /\ last.text = <<".", "*">>
    /\ Top.pat = <<"(", "?", ":", BS, ".", BS, "*", ")">>
    /\ FullMatch(Top.pat, <<".", "*">>)
    /\ ~FullMatch(Top.pat, <<"a", "*">>)

\* C2: every fragment's pattern is self-contained: L.then(R) and L + R
\* match exactly a match of L followed by a match of R, and a quantified
\* fragment matches exactly that many matches of the fragment in a row.
C2_SelfContained ==
    (Returned /\ last.op \in {"then", "add", "repeats"}
              /\ \A k \in 1..Len(last.args) : IsValid(Arg(k).pat)) =>
        \A s \in Subjects : \A i \in 0..Len(s) :
            Ends(Top.pat, s, {i}) =
                IF last.op = "repeats"
                THEN Times(Arg(1).pat, s, {i}, last.nums[1])
                ELSE Ends(Arg(2).pat, s, Ends(Arg(1).pat, s, {i}))

\* C3: for every two fragments L and R of any kinds, L.then(R) and L + R
\* return a Chain fragment whose pattern is L's pattern followed by R's
\* pattern, nothing between and nothing around; so (A + B) + C and
\* A + (B + C) render the same pattern.
C3_ThenConcatenates ==
    /\ (last.op \in {"then", "add"} /\ Returned) =>
           /\ Top.kind = Chain
           /\ Top.pat = Arg(1).pat \o Arg(2).pat
    /\ \A a \in Fragments, b \in Fragments, c \in Fragments :
           /\ then(then(a, b), c).pat = then(a, then(b, c)).pat
           /\ add(add(a, b), c).pat = a.pat \o b.pat \o c.pat

C3_Witness ==
    /\ last.op = "add"
    /\ Returned
    /\ Arg(1).kind = Quantifier
    /\ Arg(1).pat = <<"(", "?", ":", BS, "d", ")", "+">>
    /\ Arg(2).kind = Custom
    /\ Top.pat = Arg(1).pat \o <<"[", "a", "b", "]">>

\* C4: one_of over N >= 1 fragments returns a Chain fragment whose pattern is
\* the operands' patterns in order with one '|' between neighbours, no '|'
\* in front or behind and no group around; L | R renders the same pattern
\* as one_of over [L, R].
C4_OneOfJoins ==
    /\ (last.op = "one_of" /\ last.nums[1] >= 1) =>
           /\ Returned
           /\ Top.kind = Chain
           /\ Top.pat = Concat([i \in 1..(2 * Len(last.args) - 1) |->
                                   IF i % 2 = 1 THEN Arg((i + 1) \div 2).pat ELSE <<"|">>])
    /\ last.op = "bitor" =>
           /\ Returned
           /\ Top.kind = Chain
           /\ Top.pat = Arg(1).pat \o <<"|">> \o Arg(2).pat
           /\ Top = one_of(<<Arg(1).pat, Arg(2).pat>>)

C4_Witness ==
    /\ last.op = "one_of"
    /\ last.nums = <<2>>
    /\ Top.pat = <<"(", "?", ":", "a", ")", "|", BS, "d">>

\* C5: each quantifier returns a Quantifier fragment whose pattern is
\* "(?:" P ")" followed by its suffix: repeats(n) "{n}", repeats_at_least(n)
\* "{n,}", repeats_one_or_more_times "+", optional "?",
\* repeats_zero_or_more_times "*", repeats_n_times_within(start..end)
\* "{start,end}", the counts in decimal; P * n renders as P.repeats(n); and
\* beginning() + digit()*4 + (just("-") + digit()*2)*2 + ending() renders
\* ^(?:\d){4}(?:(?:\-)(?:\d){2}){2}$.
C5_Suffix(op) ==
    LET n == Len(Arg(1).pat) + 4
        rest == SubSeq(Top.pat, n + 1, Len(Top.pat))
        body == SubSeq(rest, 2, Len(rest) - 1)
        comma == CHOOSE i \in 1..Len(body) : body[i] = ","
        braced == Len(rest) >= 3 /\ rest[1] = "{" /\ rest[Len(rest)] = "}"
    IN  /\ SubSeq(Top.pat, 1, n) = <<"(", "?", ":">> \o Arg(1).pat \o <<")">>
        /\ CASE op \in {"repeats", "mul"} ->
                    braced /\ IsNumeral(body) /\ ParseUsize(body) = last.nums[1]
             [] op = "repeats_at_least" ->
                    /\ braced
                    /\ body[Len(body)] = ","
                    /\ IsNumeral(SubSeq(body, 1, Len(body) - 1))
                    /\ ParseUsize(SubSeq(body, 1, Len(body) - 1)) = last.nums[1]
             [] op = "repeats_n_times_within" ->
                    /\ braced
                    /\ \E i \in 1..Len(body) : body[i] = ","
                    /\ IsNumeral(SubSeq(body, 1, comma - 1))
                    /\ IsNumeral(SubSeq(body, comma + 1, Len(body)))
                    /\ ParseUsize(SubSeq(body, 1, comma - 1)) = last.nums[1]
                    /\ ParseUsize(SubSeq(body, comma + 1, Len(body))) = last.nums[2]
             [] op = "repeats_one_or_more_times" -> rest = <<"+">>
             [] op = "optional" -> rest = <<"?">>
             [] op = "repeats_zero_or_more_times" -> rest = <<"*">>

QuantifierOps ==
    {"repeats", "mul", "repeats_at_least", "repeats_n_times_within",
     "repeats_one_or_more_times", "optional", "repeats_zero_or_more_times"}

ZipPattern ==
    <<"^", "(", "?", ":", BS, "d", ")", "{", "4", "}",
      "(", "?", ":", "(", "?", ":", BS, "-", ")",
      "(", "?", ":", BS, "d", ")", "{", "2", "}", ")", "{", "2", "}", "$">>

C5_QuantifiersRender ==
    /\ last.op \in QuantifierOps =>
           /\ Returned
           /\ Top.kind = Quantifier
           /\ C5_Suffix(last.op)
    /\ last.op = "mul" => Top = repeats(Arg(1), last.nums[1])
    /\ add(add(add(beginning, mul(digit, 4)),
               mul(add(just(<<"-">>), mul(digit, 2)), 2)),
           ending).pat = ZipPattern

C5_Witness ==
    /\ last.op = "repeats_n_times_within"
    /\ last.nums = <<0, 1>>
    /\ Arg(1).kind = Chain
    /\ Top.pat = <<"(", "?", ":">> \o Arg(1).pat \o <<")", "{", "0", ",", "1", "}">>

\* C6: for start < end, P.repeats_n_times_within(start..end) accepts a whole
\* input of exactly k matches of P in a row exactly when start <= k < end.
C6_WithinRange ==
    (Returned /\ last.op = "repeats_n_times_within" /\ last.nums[1] < last.nums[2]) =>
        \A t \in Texts :
            Arg(1) = just(t) =>
                \A k \in 0..(MaxCount + 1) :
                    FullMatch(Top.pat, Copies(t, k))
                        <=> (last.nums[1] <= k /\ k < last.nums[2])

\* C7: lazy is applied only to a fragment of kind Quantifier, never to a
\* Text, CharClass or Chain fragment, and never panics; it returns a Chain
\* fragment whose pattern is the operand's pattern followed by one '?', so
\* lazy is not available on its own result.
C7_LazyOnlyOnQuantifier ==
    /\ last.op = "lazy" =>
           /\ Arg(1).kind = Quantifier
           /\ Returned
           /\ Top.kind = Chain
           /\ Top.pat = Arg(1).pat \o <<"?">>
           /\ ~HasLazy(Top)
    /\ \A f \in Fragments : HasLazy(f) => f.kind \notin {Text, Chain} \cup CharClass

C7_Witness ==
    /\ last.op = "lazy"
    /\ Arg(1).pat = <<"(", "?", ":", "(", "?", ":", "a", ")", ")", "{", "1", ",", "}">>
    /\ Top.pat = Arg(1).pat \o <<"?">>

SetOps ==
    {"and", "bitand", "sub", "bitxor", "symmetric_difference_with",
     "symmetric_difference_between"}

\* C8: intersection (and / &), difference (-) and symmetric difference
\* (symmetric_difference_with / ^ / symmetric_difference_between) are applied
\* only when both operands are CharClass fragments; a Text, Quantifier or
\* Chain fragment is accepted on neither side.
C8_SetOpsOnlyOnCharClass ==
    last.op \in SetOps => Arg(1).kind \in CharClass /\ Arg(2).kind \in CharClass

\* C9: for character-class fragments L and R, L & R renders "[" L "&&" R "]",
\* L - R renders "[" L "--" R "]" and L ^ R renders "[" L "~~" R "]", the
\* operand patterns verbatim and in that order; each result has kind
\* CharClass<Custom>; and, symmetric_difference_with and
\* symmetric_difference_between render as their operators do.
C9_Infix(op) ==
    CASE op \in {"and", "bitand"} -> <<"&", "&">>
      [] op = "sub" -> <<"-", "-">>
      [] OTHER -> <<"~", "~">>

C9_SetOpsRender ==
    (last.op \in SetOps /\ Arg(1).kind \in CharClass /\ Arg(2).kind \in CharClass) =>
        /\ Returned
        /\ Top.kind = Custom
        /\ Top.pat = <<"[">> \o Arg(1).pat \o C9_Infix(last.op) \o Arg(2).pat \o <<"]">>

C9_Witness ==
    /\ last.op = "and"
    /\ Arg(1) = ascii_alphabetic
    /\ Arg(2) = digit
    /\ Top.pat = <<"[">> \o ascii_alphabetic.pat \o <<"&", "&", BS, "d", "]">>

\* C10: for a CharClass<Standard> fragment F that is one lowercase-leading
\* escape of the toggled families (\d, \w, \s, \b, \p{...}), not(F) renders
\* the uppercase counterpart and not(not(F)) renders F's pattern again.
IsLowerEscape(p) ==
    /\ Len(p) >= 2
    /\ p[1] = BS
    /\ p[2] \in {"d", "w", "s", "b", "p"}
    /\ \A i \in 2..Len(p) : p[i] # BS

UpperOf(c) ==
    CASE c = "d" -> "D" [] c = "w" -> "W" [] c = "s" -> "S" [] c = "b" -> "B"
      [] c = "p" -> "P"

C10_DoubleNegation ==
    (last.op = "not" /\ Arg(1).kind = Standard /\ IsLowerEscape(Arg(1).pat)) =>
        /\ Returned
        /\ Top.kind = Standard
        /\ Top.pat = [Arg(1).pat EXCEPT ![2] = UpperOf(Arg(1).pat[2])]
        /\ not(Top) = Arg(1)

C10_Witness ==
    /\ last.op = "not"
    /\ Arg(1) = alphabetic
    /\ Top.pat = <<BS, "P", "{", "L", "}">>

\* The negated bracket expressions "[^c]" of the characters c of text, in order.
NegatedChars(text) == Concat([i \in 1..Len(text) |-> <<"[", "^", text[i], "]">>])

\* C11: for every literal text T, not(just(T)) is a Chain fragment whose
\* pattern is one "[^c]" per character c of T, in order, so that it matches
\* only subjects of as many characters as T has.
C11_NotTextPerCharacter ==
    \A T \in Texts :
        (last.op = "not" /\ Arg(1) = just(T)) =>
            /\ Returned
            /\ Top.kind = Chain
            /\ Top.pat = NegatedChars(T)
            /\ \A s \in Subjects : FullMatch(Top.pat, s) => Len(s) = Len(T)

\* C12: complement of a CharClass<Ascii> fragment toggles the POSIX negation
\* marker ("[[:^" becomes "[[:", "[[:" becomes "[[:^"), and fails fatally
\* for a pattern that does not start with that prefix.
C12_AsciiToggle ==
    (last.op = "not" /\ Arg(1).kind = Ascii) =>
        LET p == Arg(1).pat
        IN  IF StartsWithAt(p, 1, <<"[", "[", ":", "^">>)
            THEN /\ Returned
                 /\ Top = PrettyRegex(<<"[", "[", ":">> \o SubSeq(p, 5, Len(p)), Ascii)
            ELSE IF StartsWithAt(p, 1, <<"[", "[", ":">>) /\ Len(p) >= 4
            THEN /\ Returned
                 /\ Top = PrettyRegex(<<"[", "[", ":", "^">> \o SubSeq(p, 4, Len(p)), Ascii)
            ELSE panicked

\* C13: every fragment built without new, From::from and nonescaped, from
\* well-formed character lists and ranges and any sequence of combinators
\* (repeats_n_times_within with any range included), has a pattern that
\* to_regex compiles.
C13_SafeBuildsCompile ==
    \A i \in 1..Len(pool) : IsValid(pool[i].pat)

\* The characters of a list as one-character strings.
CharStrings(set) == [i \in 1..Len(set) |-> <<set[i]>>]

\* The character-class fragments the public constructors return.
ClassConstructed ==
    {any, digit, word, whitespace, word_boundary, beginning, ending,
     text_beginning, text_ending, ascii_alphabetic, ascii_alphanumeric,
     ascii_lowercase, alphabetic, lowercase}
    \cup {within(CharStrings(set)) : set \in CharLists}
    \cup {without(CharStrings(set)) : set \in CharLists}
    \cup {within_char_range(r[1], r[2]) : r \in CharRanges}
    \cup {without_char_range(r[1], r[2]) : r \in CharRanges}

\* C14: for every character-class fragment F built by a public constructor
\* and every single-character input c, not(F) matches c exactly when F does
\* not match c.
C14_NotIsComplement ==
    (last.op = "not" /\ Arg(1) \in ClassConstructed) =>
        /\ Returned
        /\ \A c \in SubjectAlphabet :
               is_match(Top.pat, <<c>>) <=> ~is_match(Arg(1).pat, <<c>>)

\* The five standard escapes with their letter in each case.
EscapePairs == <<<<"d", "D">>, <<"p", "P">>, <<"w", "W">>, <<"s", "S">>, <<"b", "B">>>>

\* p with every escape of EscapePairs[1..n] swapped from case a to case b.
RECURSIVE SwapEscapes(_, _, _, _)
SwapEscapes(p, n, a, b) ==
    IF n = 0 THEN p
    ELSE Replace(SwapEscapes(p, n - 1, a, b),
                 <<BS, EscapePairs[n][a]>>, <<BS, EscapePairs[n][b]>>)

\* C15: complement of a CharClass<Standard> fragment of fewer than 2
\* characters, whatever their byte length, returns it unchanged and never
\* aborts; with 2 or more characters the case of the second one chooses the
\* swap direction (lowercase: lower to upper, otherwise upper to lower).
C15_StandardShortUnchanged ==
    (last.op = "not" /\ Arg(1).kind = Standard) =>
        LET p == Arg(1).pat
        IN  /\ Returned
            /\ Top.kind = Standard
            /\ Top.pat = IF Len(p) < 2 THEN p
                         ELSE IF is_lowercase(p[2]) THEN SwapEscapes(p, 5, 1, 2)
                         ELSE SwapEscapes(p, 5, 2, 1)

\* p holds one of the set operators "&&", "--", "~~".
HasSetOperator(p) ==
    \E i \in 1..Len(p) : \E o \in {"&", "-", "~"} : StartsWithAt(p, i, <<o, o>>)

\* C16: for every CharClass<Custom> fragment F that within, without,
\* within_char_range, without_char_range (over any characters, '[' and '^'
\* included) or a set operator returns, not(not(F)) renders F's pattern, and
\* not(within(S)) renders the pattern of without(S).
C16_CustomInvolution ==
    (last.op = "not" /\ Arg(1).kind = Custom /\ (ops = 1 \/ HasSetOperator(Arg(1).pat))) =>
        /\ Returned
        /\ Top.kind = Custom
        /\ not(Top) = Arg(1)
        /\ \A S \in CharLists :
               Arg(1) = within(CharStrings(S)) => Top = without(CharStrings(S))

====
